---- MODULE Spec2Model ----
(***************************************************************************)
(* Model of computeSales.py: a one-shot batch program that joins a price   *)
(* catalogue with a sales record (two JSON files), prints the total and    *)
(* writes it to SalesResults.txt.                                          *)
(*                                                                         *)
(* JSON values are tagged records [t, s, n]:                               *)
(*   t = "absent"  the key is not in the dict (dict.get then gives None)   *)
(*   t = "null"    JSON null / Python None                                 *)
(*   t = "bool"    n = 1 for true, 0 for false (bool is a subclass of int) *)
(*   t = "int"     n = the integer                                         *)
(*   t = "bigint"  an integer literal beyond the range of a double; Python *)
(*                 parses it as an int, float() of it raises OverflowError *)
(*   t = "float"   n = the value in quarters (2.5 is n = 10), so that all  *)
(*                 sums and products of the model are exact in binary      *)
(*   t = "str"     s = the text                                            *)
(* A Python float held by the program (a price, the total) is its number   *)
(* of quarters.                                                            *)
(***************************************************************************)
EXTENDS Integers, Sequences, FiniteSets, TLC

VARIABLES argv, catFile, salesFile, resultFile, clock,
          pc, start_time, catalogue, sales, prices, total, i,
          results, console, exit_code, exc, run, prev

vars == <<argv, catFile, salesFile, resultFile, clock,
          pc, start_time, catalogue, sales, prices, total, i,
          results, console, exit_code, exc, run, prev>>

(* ------------------------------ bounds -------------------------------- *)
MaxCat == 2
MaxSales == 2
MaxClock == 1
MaxRuns == 2

(* ---------------------------- JSON values ----------------------------- *)
JAbsent == [t |-> "absent", s |-> "", n |-> 0]
JNone == [t |-> "null", s |-> "", n |-> 0]
JBool(b) == [t |-> "bool", s |-> "", n |-> IF b THEN 1 ELSE 0]
JInt(k) == [t |-> "int", s |-> "", n |-> k]
JBigInt == [t |-> "bigint", s |-> "", n |-> 0]
JFloat(q) == [t |-> "float", s |-> "", n |-> q]
JStr(x) == [t |-> "str", s |-> x, n |-> 0]

SeqsUpTo(S, k) == UNION {[1..m -> S] : m \in 0..k}

(* rows of the catalogue: a dict with optional title and price, or any     *)
(* other JSON value                                                        *)
CatDict(ti, pr) == [isdict |-> TRUE, title |-> ti, price |-> pr]
CatNonDict == [isdict |-> FALSE, title |-> JAbsent, price |-> JAbsent]
(* rows of the sales record                                                *)
SaleDict(p, q) == [isdict |-> TRUE, Product |-> p, Quantity |-> q]
SaleNonDict == [isdict |-> FALSE, Product |-> JAbsent, Quantity |-> JAbsent]

(* ------------------------- Python type checks ------------------------- *)
(* item.get(key): None when the key is absent                              *)
Get(item, key) == IF item[key].t = "absent" THEN JNone ELSE item[key]

IsStr(v) == v.t = "str"
(* isinstance(v, int): bool is a subclass of int                           *)
IsInt(v) == v.t \in {"int", "bool", "bigint"}
(* isinstance(v, (int, float))                                             *)
IsIntOrFloat(v) == IsInt(v) \/ v.t = "float"

(* float(price) raises OverflowError for an int beyond the double range    *)
FloatRaises(v) == v.t = "bigint"
(* float(price), in quarters                                               *)
ToFloat(v) == IF v.t = "float" THEN v.n ELSE 4 * v.n
(* prices[product] * quantity converts the int operand to float first      *)
MulRaises(q) == q.t = "bigint"
Mul(p, q) == p * q.n

(* f"{total_sales:.2f}" of a float given in quarters                       *)
Abs(x) == IF x < 0 THEN 0 - x ELSE x
Format2f(x) == [neg |-> x < 0, whole |-> Abs(x) \div 4, cents |-> 25 * (Abs(x) % 4)]

(* ------------------------------- text --------------------------------- *)
RESULT_FILE == "SalesResults.txt"

NoResults == [set |-> FALSE, catalogue_file |-> "", sales_file |-> "",
              total |-> Format2f(0), elapsed |-> 0]
Line(k, m, a) == [k |-> k, msg |-> m, arg |-> a, rep |-> NoResults]
(* print_error(message): "ERROR: " followed by the message                 *)
print_error(m, a) == Line("ERROR", m, a)
UsageLine == Line("usage", "Usage: python computeSales.py priceCatalogue.json salesRecord.json", "")
ResultsLine(r) == [k |-> "results", msg |-> "Compute Sales - Results", arg |-> "", rep |-> r]
StaleLine == Line("stale", "content of an earlier, unrelated run", "")

(* ------------------------------- files -------------------------------- *)
(* st: "missing" (FileNotFoundError), "unreadable" (another OSError, such  *)
(* as a directory or a file without read permission), "badjson"            *)
(* (JSONDecodeError), "ok" (decodes; islist tells a top-level list)        *)
FileMissing == [st |-> "missing", islist |-> FALSE, rows |-> <<>>]
FileUnreadable == [st |-> "unreadable", islist |-> FALSE, rows |-> <<>>]
FileBadJson == [st |-> "badjson", islist |-> FALSE, rows |-> <<>>]
FileNonList == [st |-> "ok", islist |-> FALSE, rows |-> <<>>]
FileList(rs) == [st |-> "ok", islist |-> TRUE, rows |-> rs]
BadFiles == {FileMissing, FileUnreadable, FileBadJson, FileNonList}

NotLoaded == [islist |-> FALSE, rows |-> <<>>]
EmptyDict == [x \in {} |-> 0]
NoFile == [exists |-> FALSE, text |-> <<>>]
StaleFile == [exists |-> TRUE, text |-> <<StaleLine>>]
NoPrev == [done |-> FALSE, exit_code |-> 0, total |-> 0, results |-> NoResults]

(* ------------------------------ inputs -------------------------------- *)
ArgvSet == {<<"computeSales.py">>,
            <<"computeSales.py", "cat.json">>,
            <<"computeSales.py", "cat.json", "sales.json">>,
            <<"computeSales.py", "cat.json", "sales.json", "extra">>}

MainCatRows == {CatNonDict,
                CatDict(JStr("A"), JFloat(10)),
                CatDict(JAbsent, JInt(2)),
                CatDict(JStr("B"), JBigInt)}
MainSaleRows == {SaleNonDict,
                 SaleDict(JStr("A"), JInt(1)),
                 SaleDict(JStr("B"), JInt(1)),
                 SaleDict(JStr("A"), JStr("5")),
                 SaleDict(JStr("A"), JBigInt)}

RunsCatRows == {CatDict(JStr("A"), JFloat(10)), CatDict(JStr("B"), JBigInt)}
RunsSaleRows == {SaleDict(JStr("A"), JInt(0 - 1)),
                 SaleDict(JStr("B"), JInt(1)),
                 SaleDict(JStr("A"), JBigInt)}

IndexTitles == {JStr("A"), JStr("B"), JInt(7), JAbsent}
IndexPrices == {JAbsent, JNone, JInt(2), JFloat(10), JStr("2"), JBool(TRUE), JBigInt}
IndexCatRows == {CatNonDict} \cup {CatDict(ti, pr) : ti \in IndexTitles, pr \in IndexPrices}

AggCatalogues == {<<>>,
                  <<CatDict(JStr("A"), JInt(2))>>,
                  <<CatDict(JStr("A"), JFloat(10)), CatDict(JStr("B"), JBool(TRUE))>>,
                  <<CatDict(JStr("A"), JInt(2)), CatDict(JStr("B"), JInt(0 - 3))>>}
AggProducts == {JStr("A"), JStr("B"), JInt(7)}
AggQuantities == {JAbsent, JNone, JInt(2), JInt(0 - 1), JFloat(8), JStr("5"),
                  JBool(TRUE), JBigInt}
AggSaleRows == {SaleNonDict, SaleDict(JAbsent, JInt(2))}
               \cup {SaleDict(p, q) : p \in AggProducts, q \in AggQuantities}

(* the state of the process before main() runs                            *)
Fresh ==
    /\ pc = "main"
    /\ start_time = 0
    /\ catalogue = NotLoaded
    /\ sales = NotLoaded
    /\ prices = EmptyDict
    /\ total = 0
    /\ i = 1
    /\ results = NoResults
    /\ console = <<>>
    /\ exit_code = 0 - 1
    /\ exc = "none"

(* the environment of a run: any arguments, any state of the two input    *)
(* files, a result file that may exist already, any reading of the clock   *)
Environment(crows, srows) ==
    /\ argv \in ArgvSet
    /\ catFile \in BadFiles \cup {FileList(rs) : rs \in SeqsUpTo(crows, MaxCat)}
    /\ salesFile \in BadFiles \cup {FileList(rs) : rs \in SeqsUpTo(srows, MaxSales)}
    /\ Len(argv) # 3 => (catFile = FileMissing /\ salesFile = FileMissing)
    /\ ~ catFile.islist => Len(salesFile.rows) = 0
    /\ ~ salesFile.islist => Len(catFile.rows) = 0
    /\ resultFile \in {NoFile, StaleFile}
    /\ clock \in 0..MaxClock
    /\ run = 1
    /\ prev = NoPrev
    /\ Fresh

(* the program run again and again on the same inputs *)
Init == Environment(RunsCatRows, RunsSaleRows)

(* one run of the program *)
InitMain == Environment(MainCatRows, MainSaleRows)

(* ------------------------------ main() -------------------------------- *)
Exit(code) ==
    /\ exit_code' = code
    /\ pc' = "exit"

(* the clock between two readings; time.time() is the wall clock, which    *)
(* may also be set back                                                    *)
Tick == clock' \in 0..MaxClock

(* lines 120-131: the start time and the argument count                    *)
main_args ==
    /\ pc = "main"
    /\ start_time' = clock
    /\ IF Len(argv) # 3
       THEN /\ console' = Append(console, UsageLine)
            /\ Exit(1)
       ELSE /\ pc' = "load_catalogue"
            /\ UNCHANGED <<console, exit_code>>
    /\ UNCHANGED <<argv, catFile, salesFile, resultFile, clock, catalogue, sales,
                   prices, total, i, results, exc, run, prev>>

(* load_json_file(filename) on the file f: the lines printed, whether the  *)
(* process exits, the exception that escapes                               *)
load_json_file(f, filename) ==
    IF f.st = "missing"
    THEN [out |-> <<print_error("File not found", filename)>>, exits |-> TRUE, exc |-> "none"]
    ELSE IF f.st = "badjson"
    THEN [out |-> <<print_error("Invalid JSON format in file", filename)>>, exits |-> TRUE,
          exc |-> "none"]
    ELSE IF f.st = "unreadable"
    THEN [out |-> <<>>, exits |-> TRUE, exc |-> "OSError"]
    ELSE [out |-> <<>>, exits |-> FALSE, exc |-> "none"]

(* line 133 *)
LoadCatalogue ==
    /\ pc = "load_catalogue"
    /\ LET r == load_json_file(catFile, argv[2]) IN
       /\ console' = console \o r.out
       /\ exc' = r.exc
       /\ IF r.exits
          THEN Exit(1) /\ UNCHANGED catalogue
          ELSE /\ catalogue' = [islist |-> catFile.islist, rows |-> catFile.rows]
               /\ pc' = "load_sales"
               /\ UNCHANGED exit_code
    /\ UNCHANGED <<argv, catFile, salesFile, resultFile, clock, start_time, sales,
                   prices, total, i, results, run, prev>>

(* line 134 *)
LoadSales ==
    /\ pc = "load_sales"
    /\ LET r == load_json_file(salesFile, argv[3]) IN
       /\ console' = console \o r.out
       /\ exc' = r.exc
       /\ IF r.exits
          THEN Exit(1) /\ UNCHANGED sales
          ELSE /\ sales' = [islist |-> salesFile.islist, rows |-> salesFile.rows]
               /\ pc' = "check_catalogue"
               /\ UNCHANGED exit_code
    /\ UNCHANGED <<argv, catFile, salesFile, resultFile, clock, start_time, catalogue,
                   prices, total, i, results, run, prev>>

(* a variant of lines 136-138 without the sys.exit(1)                      *)
CheckCatalogueNoExit ==
    /\ pc = "check_catalogue"
    /\ IF ~ catalogue.islist
       THEN console' = Append(console, print_error("Catalogue file must contain a list", ""))
       ELSE UNCHANGED console
    /\ pc' = "check_sales"
    /\ UNCHANGED <<argv, catFile, salesFile, resultFile, clock, start_time, catalogue, sales,
                   prices, total, i, results, exit_code, exc, run, prev>>

(* lines 136-138 *)
CheckCatalogue ==
    /\ pc = "check_catalogue"
    /\ IF ~ catalogue.islist
       THEN /\ console' = Append(console, print_error("Catalogue file must contain a list", ""))
            /\ Exit(1)
       ELSE /\ pc' = "check_sales"
            /\ UNCHANGED <<console, exit_code>>
    /\ UNCHANGED <<argv, catFile, salesFile, resultFile, clock, start_time, catalogue, sales,
                   prices, total, i, results, exc, run, prev>>

(* lines 140-142 *)
CheckSales ==
    /\ pc = "check_sales"
    /\ IF ~ sales.islist
       THEN /\ console' = Append(console, print_error("Sales file must contain a list", ""))
            /\ Exit(1)
       ELSE /\ pc' = "build"
            /\ UNCHANGED <<console, exit_code>>
    /\ UNCHANGED <<argv, catFile, salesFile, resultFile, clock, start_time, catalogue, sales,
                   prices, total, i, results, exc, run, prev>>

(* a variant that keeps the first price of a title: prices.setdefault      *)
DictSetDefault(p, key, value) ==
    [x \in DOMAIN p \cup {key} |-> IF x \in DOMAIN p THEN p[x] ELSE value]

(* prices[title] = value *)
DictSet(p, key, value) ==
    [x \in DOMAIN p \cup {key} |-> IF x = key THEN value ELSE p[x]]

(* lines 54-69: the body of the loop of build_price_dictionary for one     *)
(* item, from the mapping p                                                *)
build_row(p, item) ==
    IF ~ item.isdict
    THEN [prices |-> p, out |-> <<print_error("Invalid product entry (skipped)", "")>>,
          exc |-> "none"]
    ELSE LET title == Get(item, "title")
             price == Get(item, "price")
         IN  IF ~ IsStr(title)
             THEN [prices |-> p,
                   out |-> <<print_error("Product without valid title (skipped)", "")>>,
                   exc |-> "none"]
             ELSE IF ~ IsIntOrFloat(price)
             THEN [prices |-> p,
                   out |-> <<print_error("Product has invalid price (skipped)", title.s)>>,
                   exc |-> "none"]
             ELSE IF FloatRaises(price)
             THEN [prices |-> p, out |-> <<>>, exc |-> "OverflowError"]
             ELSE [prices |-> DictSet(p, title.s, ToFloat(price)), out |-> <<>>,
                   exc |-> "none"]

(* line 144, one iteration of the loop of line 53; an exception that no    *)
(* one catches ends the process with status 1                              *)
BuildRow ==
    /\ pc = "build"
    /\ i <= Len(catalogue.rows)
    /\ LET r == build_row(prices, catalogue.rows[i]) IN
       /\ prices' = r.prices
       /\ console' = console \o r.out
       /\ exc' = r.exc
       /\ IF r.exc # "none"
          THEN Exit(1) /\ UNCHANGED i
          ELSE i' = i + 1 /\ UNCHANGED <<pc, exit_code>>
    /\ UNCHANGED <<argv, catFile, salesFile, resultFile, clock, start_time, catalogue, sales,
                   total, results, run, prev>>

(* line 71: the loop is over, the mapping is returned; line 79 *)
BuildReturn ==
    /\ pc = "build"
    /\ i > Len(catalogue.rows)
    /\ pc' = "compute"
    /\ i' = 1
    /\ total' = 0
    /\ UNCHANGED <<argv, catFile, salesFile, resultFile, clock, start_time, catalogue, sales,
                   prices, results, console, exit_code, exc, run, prev>>

(* a variant of lines 82-103 that skips an unknown product without a       *)
(* diagnostic                                                              *)
sale_row_silent(tot, sale, p) ==
    IF ~ sale.isdict
    THEN [total |-> tot, out |-> <<print_error("Invalid sale entry (skipped)", "")>>,
          exc |-> "none"]
    ELSE LET product == Get(sale, "Product")
             quantity == Get(sale, "Quantity")
         IN  IF ~ IsStr(product)
             THEN [total |-> tot,
                   out |-> <<print_error("Sale without valid product name (skipped)", "")>>,
                   exc |-> "none"]
             ELSE IF ~ IsInt(quantity)
             THEN [total |-> tot,
                   out |-> <<print_error("Invalid quantity for product (skipped)", product.s)>>,
                   exc |-> "none"]
             ELSE IF product.s \notin DOMAIN p
             THEN [total |-> tot, out |-> <<>>, exc |-> "none"]
             ELSE IF MulRaises(quantity)
             THEN [total |-> tot, out |-> <<>>, exc |-> "OverflowError"]
             ELSE [total |-> tot + Mul(p[product.s], quantity), out |-> <<>>, exc |-> "none"]

(* lines 82-103: the body of the loop of compute_total_sales for one sale, *)
(* from the running total tot                                              *)
sale_row(tot, sale, p) ==
    IF ~ sale.isdict
    THEN [total |-> tot, out |-> <<print_error("Invalid sale entry (skipped)", "")>>,
          exc |-> "none"]
    ELSE LET product == Get(sale, "Product")
             quantity == Get(sale, "Quantity")
         IN  IF ~ IsStr(product)
             THEN [total |-> tot,
                   out |-> <<print_error("Sale without valid product name (skipped)", "")>>,
                   exc |-> "none"]
             ELSE IF ~ IsInt(quantity)
             THEN [total |-> tot,
                   out |-> <<print_error("Invalid quantity for product (skipped)", product.s)>>,
                   exc |-> "none"]
             ELSE IF product.s \notin DOMAIN p
             THEN [total |-> tot,
                   out |-> <<print_error("Product not found in catalogue (skipped)",
                                         product.s)>>,
                   exc |-> "none"]
             ELSE IF MulRaises(quantity)
             THEN [total |-> tot, out |-> <<>>, exc |-> "OverflowError"]
             ELSE [total |-> tot + Mul(p[product.s], quantity), out |-> <<>>, exc |-> "none"]

(* line 145, one iteration of the loop of line 81 *)
SaleRow ==
    /\ pc = "compute"
    /\ i <= Len(sales.rows)
    /\ LET r == sale_row(total, sales.rows[i], prices) IN
       /\ total' = r.total
       /\ console' = console \o r.out
       /\ exc' = r.exc
       /\ IF r.exc # "none"
          THEN Exit(1) /\ UNCHANGED i
          ELSE i' = i + 1 /\ UNCHANGED <<pc, exit_code>>
    /\ UNCHANGED <<argv, catFile, salesFile, resultFile, clock, start_time, catalogue, sales,
                   prices, results, run, prev>>

(* line 105: the loop is over, the total is returned *)
ComputeReturn ==
    /\ pc = "compute"
    /\ i > Len(sales.rows)
    /\ pc' = "format"
    /\ UNCHANGED <<argv, catFile, salesFile, resultFile, clock, start_time, catalogue, sales,
                   prices, total, i, results, console, exit_code, exc, run, prev>>

(* lines 147-156: the elapsed time and the text of the report *)
FormatResults ==
    /\ pc = "format"
    /\ Tick
    /\ results' = [set |-> TRUE, catalogue_file |-> argv[2], sales_file |-> argv[3],
                   total |-> Format2f(total), elapsed |-> clock' - start_time]
    /\ pc' = "print"
    /\ UNCHANGED <<argv, catFile, salesFile, resultFile, start_time, catalogue, sales,
                   prices, total, i, console, exit_code, exc, run, prev>>

(* line 158 *)
PrintResults ==
    /\ pc = "print"
    /\ console' = Append(console, ResultsLine(results))
    /\ pc' = "save"
    /\ UNCHANGED <<argv, catFile, salesFile, resultFile, clock, start_time, catalogue, sales,
                   prices, total, i, results, exit_code, exc, run, prev>>

(* a variant that opens the file with "a" and appends                      *)
save_results_append(file, text) ==
    [exists |-> TRUE, text |-> file.text \o <<ResultsLine(text)>>]

(* lines 108-113: open(RESULT_FILE, "w") truncates, then the text is       *)
(* written                                                                 *)
save_results(file, text) == [exists |-> TRUE, text |-> <<ResultsLine(text)>>]

(* line 159, then main returns and the process ends with status 0 *)
SaveResults ==
    /\ pc = "save"
    /\ resultFile' = save_results(resultFile, results)
    /\ Exit(0)
    /\ UNCHANGED <<argv, catFile, salesFile, clock, start_time, catalogue, sales,
                   prices, total, i, results, console, exc, run, prev>>

(* the user runs the program again on the same arguments and files; the    *)
(* outcome of the run that ended is kept for comparison                    *)
Rerun ==
    /\ pc = "exit"
    /\ run < MaxRuns
    /\ run' = run + 1
    /\ prev' = [done |-> TRUE, exit_code |-> exit_code, total |-> total, results |-> results]
    /\ pc' = "main"
    /\ start_time' = 0
    /\ catalogue' = NotLoaded
    /\ sales' = NotLoaded
    /\ prices' = EmptyDict
    /\ total' = 0
    /\ i' = 1
    /\ results' = NoResults
    /\ console' = <<>>
    /\ exit_code' = 0 - 1
    /\ exc' = "none"
    /\ Tick
    /\ UNCHANGED <<argv, catFile, salesFile, resultFile>>

Next ==
    \/ main_args
    \/ LoadCatalogue
    \/ LoadSales
    \/ CheckCatalogue
    \/ CheckSales
    \/ BuildRow
    \/ BuildReturn
    \/ SaleRow
    \/ ComputeReturn
    \/ FormatResults
    \/ PrintResults
    \/ SaveResults
    \/ Rerun

Spec == Init /\ [][Next]_vars

(* ----------------------------- one run -------------------------------- *)
NextMain ==
    \/ main_args
    \/ LoadCatalogue
    \/ LoadSales
    \/ CheckCatalogue
    \/ CheckSales
    \/ BuildRow
    \/ BuildReturn
    \/ SaleRow
    \/ ComputeReturn
    \/ FormatResults
    \/ PrintResults
    \/ SaveResults

SpecMain == InitMain /\ [][NextMain]_vars

(* ------------------- build_price_dictionary alone --------------------- *)
(* the state main() is in at line 144, after both files loaded as lists    *)
Loaded(crows, srows) ==
    /\ argv = <<"computeSales.py", "cat.json", "sales.json">>
    /\ catFile = FileList(crows)
    /\ salesFile = FileList(srows)
    /\ resultFile = NoFile
    /\ clock = 0
    /\ pc = "build"
    /\ start_time = 0
    /\ catalogue = [islist |-> TRUE, rows |-> crows]
    /\ sales = [islist |-> TRUE, rows |-> srows]
    /\ prices = EmptyDict
    /\ total = 0
    /\ i = 1
    /\ results = NoResults
    /\ console = <<>>
    /\ exit_code = 0 - 1
    /\ exc = "none"
    /\ run = 1
    /\ prev = NoPrev

InitIndex == \E crows \in SeqsUpTo(IndexCatRows, MaxCat) : Loaded(crows, <<>>)

NextIndex ==
    \/ BuildRow
    \/ BuildReturn

SpecIndex == InitIndex /\ [][NextIndex]_vars

(* ------ compute_total_sales(sales, build_price_dictionary(...)) ------- *)
InitAgg ==
    \E crows \in AggCatalogues, srows \in SeqsUpTo(AggSaleRows, MaxSales) :
        Loaded(crows, srows)

NextAgg ==
    \/ BuildRow
    \/ BuildReturn
    \/ SaleRow
    \/ ComputeReturn

SpecAgg == InitAgg /\ [][NextAgg]_vars

(* ============================ properties ============================== *)
(* what the specification calls a valid row: the types as JSON gives them  *)
StrictInt(v) == v.t \in {"int", "bigint"}
Numeric(v) == v.t \in {"int", "bigint", "float"}
ValidSale(sale) ==
    /\ sale.isdict
    /\ sale.Product.t = "str"
    /\ StrictInt(sale.Quantity)
Matched(sale, p) == ValidSale(sale) /\ sale.Product.s \in DOMAIN p
Contribution(sale, p) == IF Matched(sale, p) THEN p[sale.Product.s] * sale.Quantity.n ELSE 0

RECURSIVE SumValid(_, _)
SumValid(rows, p) ==
    IF rows = <<>> THEN 0
    ELSE SumValid(SubSeq(rows, 1, Len(rows) - 1), p) + Contribution(rows[Len(rows)], p)

(* the result file as it was before the first run *)
Untouched == resultFile \in {NoFile, StaleFile}

(* C1: the total returned by compute_total_sales(sales,                    *)
(* build_price_dictionary(catalogue)) is the sum of price x Quantity over   *)
(* the rows that are records with a text Product of the mapping and an     *)
(* integer Quantity; every other row contributes 0.                        *)
C1_TotalIsSumOverValidMatchedRows ==
    pc = "format" => total = SumValid(sales.rows, prices)

(* C2: a run that hits a fatal condition (argument count, a file missing   *)
(* or unopenable, invalid JSON, a top level that is not a list) ends with  *)
(* exit code 1 after exactly one diagnostic, and never reaches the report: *)
(* the result file stays as it was.                                        *)
Fatal ==
    \/ Len(argv) # 3
    \/ catFile.st # "ok"
    \/ salesFile.st # "ok"
    \/ ~ catFile.islist
    \/ ~ salesFile.islist

C2_FatalExitsWithOneDiagnostic ==
    Fatal =>
        /\ Untouched
        /\ pc \notin {"format", "print", "save"}
        /\ pc = "exit" => (exit_code = 1 /\ Len(console) = 1)

(* C3: when both inputs load as lists the run ends with exit code 0 and    *)
(* the report written, whatever the rows are; without a valid sale the     *)
(* reported total is 0.00.                                                 *)
C3_ListsAlwaysComplete ==
    (~ Fatal /\ pc = "exit") =>
        /\ exit_code = 0
        /\ resultFile = [exists |-> TRUE, text |-> <<ResultsLine(results)>>]
        /\ (\A k \in 1..Len(sales.rows) : ~ Matched(sales.rows[k], prices))
               => results.total = Format2f(0)

(* ------------------------------- C4 ----------------------------------- *)
TextTitle(row) == row.isdict /\ row.title.t = "str"
(* the rows the indexer accepts: isinstance(price, (int, float))           *)
Accepted(row) == TextTitle(row) /\ IsIntOrFloat(row.price)
Occurrences(rows, ti) == {k \in 1..Len(rows) : TextTitle(rows[k]) /\ rows[k].title.s = ti}
AcceptedOccurrences(rows, ti) == {k \in Occurrences(rows, ti) : Accepted(rows[k])}
Last(S) == CHOOSE k \in S : \A m \in S : m <= k
TitlesOf(rows) == {rows[k].title.s : k \in {m \in 1..Len(rows) : TextTitle(rows[m])}}

(* C4, as stated: a title that occurs more than once in the catalogue is   *)
(* mapped to the price of its last occurrence in the list.                 *)
C4_LastOccurrenceWins ==
    pc = "compute" =>
        \A ti \in TitlesOf(catalogue.rows) :
            Cardinality(Occurrences(catalogue.rows, ti)) > 1 =>
                LET last == catalogue.rows[Last(Occurrences(catalogue.rows, ti))] IN
                /\ ti \in DOMAIN prices
                /\ IsIntOrFloat(last.price)
                /\ prices[ti] = ToFloat(last.price)

(* C4, amended: the mapping has exactly the titles with an accepted entry, *)
(* each mapped to the price, as a float, of the last accepted entry with   *)
(* that title; the order of the catalogue matters in no other way.         *)
C4_LastAcceptedOccurrenceWins ==
    pc = "compute" =>
        prices = [ti \in {x \in TitlesOf(catalogue.rows) :
                             AcceptedOccurrences(catalogue.rows, x) # {}} |->
                    ToFloat(catalogue.rows[Last(AcceptedOccurrences(catalogue.rows, ti))].price)]

C4_Witness ==
    /\ pc = "compute"
    /\ Len(catalogue.rows) = 2
    /\ Accepted(catalogue.rows[1])
    /\ Accepted(catalogue.rows[2])
    /\ catalogue.rows[1].title = catalogue.rows[2].title
    /\ ToFloat(catalogue.rows[1].price) # ToFloat(catalogue.rows[2].price)
    /\ prices[catalogue.rows[2].title.s] = ToFloat(catalogue.rows[2].price)

(* C5: a sales row that changes the running total has a Product that is a  *)
(* key of the mapping and a Quantity that is an integer by type: text,     *)
(* floating point, boolean, null or missing never contributes.             *)
C5_OnlyIntegerQuantitiesContribute ==
    [][(pc = "compute" /\ total' # total) =>
           /\ sales.rows[i].isdict
           /\ sales.rows[i].Product.t = "str"
           /\ sales.rows[i].Product.s \in DOMAIN prices
           /\ sales.rows[i].Quantity.t = "int"]_vars

(* C6, as stated: a catalogue file that decodes to something else than a   *)
(* list ends the run with exit code 1, the diagnostic "Catalogue file must *)
(* contain a list" and no report, whatever the state of the sales file.    *)
CatalogueNotList == Len(argv) = 3 /\ catFile.st = "ok" /\ ~ catFile.islist
CatalogueDiagnostic == <<print_error("Catalogue file must contain a list", "")>>

C6_CatalogueNotListWhateverSales ==
    (CatalogueNotList /\ pc = "exit") =>
        /\ exit_code = 1
        /\ console = CatalogueDiagnostic
        /\ Untouched

(* C6, amended: such a run always ends with exit code 1 and no report; the *)
(* diagnostic is "Catalogue file must contain a list" when the sales file  *)
(* decodes too, and it is the sales file's "File not found" or "Invalid    *)
(* JSON format in file" when the sales file is missing or is not JSON.     *)
C6_CatalogueNotListWhenSalesLoads ==
    CatalogueNotList =>
        /\ Untouched
        /\ pc \notin {"build", "compute", "format", "print", "save"}
        /\ pc = "exit" =>
               /\ exit_code = 1
               /\ salesFile.st = "ok" => console = CatalogueDiagnostic
               /\ salesFile.st = "missing"
                      => console = <<print_error("File not found", argv[3])>>
               /\ salesFile.st = "badjson"
                      => console = <<print_error("Invalid JSON format in file", argv[3])>>

C6_Witness ==
    /\ CatalogueNotList
    /\ salesFile.st = "ok"
    /\ pc = "exit"
    /\ exit_code = 1
    /\ console = CatalogueDiagnostic

(* ------------------------------- C7 ----------------------------------- *)
SkippedCatRows == {k \in 1..Len(catalogue.rows) : ~ Accepted(catalogue.rows[k])}
AcceptedSale(sale) ==
    /\ sale.isdict
    /\ IsStr(sale.Product)
    /\ IsInt(sale.Quantity)
    /\ sale.Product.s \in DOMAIN prices
SkippedSaleRows == {k \in 1..Len(sales.rows) : ~ AcceptedSale(sales.rows[k])}
CatalogueMessages == {"Invalid product entry (skipped)",
                      "Product without valid title (skipped)",
                      "Product has invalid price (skipped)"}
SalesMessages == {"Invalid sale entry (skipped)",
                  "Sale without valid product name (skipped)",
                  "Invalid quantity for product (skipped)",
                  "Product not found in catalogue (skipped)"}

(* C7: a successful run prints one ERROR line for each skipped row and     *)
(* none for an accepted row, those of the catalogue before those of the    *)
(* sales, then the report, once and last; the result file holds the report *)
(* alone.                                                                  *)
C7_OneDiagnosticPerSkippedRow ==
    (pc = "exit" /\ exit_code = 0) =>
        LET nc == Cardinality(SkippedCatRows)
            ns == Cardinality(SkippedSaleRows)
        IN  /\ Len(console) = nc + ns + 1
            /\ \A k \in 1..nc :
                   console[k].k = "ERROR" /\ console[k].msg \in CatalogueMessages
            /\ \A k \in (nc + 1)..(nc + ns) :
                   console[k].k = "ERROR" /\ console[k].msg \in SalesMessages
            /\ console[nc + ns + 1] = ResultsLine(results)
            /\ results.set
            /\ resultFile.exists
            /\ resultFile.text = <<ResultsLine(results)>>

C7_Witness ==
    /\ pc = "exit"
    /\ exit_code = 0
    /\ Cardinality(SkippedCatRows) = 1
    /\ Len(catalogue.rows) = 2
    /\ Cardinality(SkippedSaleRows) = 1
    /\ Len(sales.rows) = 2
    /\ Len(console) = 3

(* ------------------------------- C8 ----------------------------------- *)
SansElapsed(r) == [r EXCEPT !.elapsed = 0]

(* C8: a second run on the same inputs gives the same total and, but for   *)
(* the elapsed time, the same report, whatever the result file held and    *)
(* whatever the clock reads; the result file then holds the report of the  *)
(* second run alone.                                                       *)
C8_SecondRunSameReport ==
    (run > 1 /\ pc = "exit") =>
        /\ exit_code = prev.exit_code
        /\ exit_code = 0 =>
               /\ total = prev.total
               /\ SansElapsed(results) = SansElapsed(prev.results)
               /\ resultFile = [exists |-> TRUE, text |-> <<ResultsLine(results)>>]

C8_Witness ==
    /\ run > 1
    /\ pc = "exit"
    /\ exit_code = 0
    /\ total # 0
    /\ results.elapsed # prev.results.elapsed
    /\ total = prev.total

(* C9: an entry enters the mapping only with a text title and a numeric    *)
(* price (integer or floating point); an entry with a text title whose     *)
(* price is missing, text, boolean or null is skipped with the "has        *)
(* invalid price (skipped)" diagnostic and leaves the mapping unchanged.   *)
C9_OnlyNumericPricesEnter ==
    [][(pc = "build" /\ i <= Len(catalogue.rows)) =>
           LET row == catalogue.rows[i] IN
           /\ prices' # prices => (TextTitle(row) /\ row.price.t \in {"int", "float"})
           /\ (TextTitle(row) /\ row.price.t \in {"absent", "null", "str", "bool"}) =>
                  /\ prices' = prices
                  /\ console' = Append(console,
                         print_error("Product has invalid price (skipped)", row.title.s))]_vars

(* C10: during the aggregation the mapping is never modified and the total *)
(* changes only on a valid, matched row, by exactly price x Quantity       *)
(* (a negative Quantity lowers it).                                        *)
C10_TotalChangesOnlyByValidMatchedRows ==
    [][pc = "compute" =>
           /\ prices' = prices
           /\ total' # total =>
                  /\ Matched(sales.rows[i], prices)
                  /\ total' = total + prices[sales.rows[i].Product.s] * sales.rows[i].Quantity.n]_vars

====
